---------------------------- MODULE Spec2Model ----------------------------
(***************************************************************************)
(* A model of the pat_scheme library: the SEC and ESCert calculators, the  *)
(* portfolio aggregation loop, the Monte Carlo compliance simulator with   *)
(* numpy's process-global random generator, and the batch forecast.        *)
(*                                                                         *)
(* Numbers.  The library computes with floats; the model computes with     *)
(* exact rationals held as integers in fixed units, and rounds only where  *)
(* the code calls round():                                                 *)
(*   calculate_sec      energy, throughput: whole units;                   *)
(*                      baseline_sec: 1/100 MMBTU/MT; percentages: whole   *)
(*   calculate_escerts  current_sec, target_sec: 1/10000 MMBTU/MT;         *)
(*                      capacity_mmtpa: 1/100 MMTPA; utilization: percent; *)
(*                      prices and the exchange rate: whole rupees         *)
(* A quantity that is not a whole number of its unit is a "mixed number"   *)
(* [neg, q, r, d]: (-1)^neg * (q + r/d) with 0 <= r < d.                   *)
(***************************************************************************)
EXTENDS Integers, Sequences, FiniteSets, TLC

VARIABLES
    op,                 \* the library function called last ("none" at start)
    args,               \* its arguments
    ret,                \* what it returned, or the exception it raised
    pc,                 \* position inside a running loop ("idle" outside)
    idx,                \* loop index into the facility rows
    total_generated,    \* calculator.py:114 accumulator
    total_required,     \* calculator.py:115 accumulator
    refinery_positions, \* calculator.py:116 list
    results,            \* models.py:98 list
    rng,                \* state of numpy's process-global generator
    hash_salt,          \* the interpreter's per-process string-hash salt
    MODEL,              \* models.py:21 the module-level coefficients instance
    saved,              \* observer: one earlier call kept for comparison
    entry_rng,          \* observer: the generator state the last call found
    workers             \* concurrent forecast workers (threads) of a batch

vars == <<op, args, ret, pc, idx, total_generated, total_required,
          refinery_positions, results, rng, hash_salt, MODEL, saved,
          entry_rng, workers>>

\* The locals of calculate_portfolio_escerts.
portfolioVars == <<idx, total_generated, total_required, refinery_positions>>

\* The process state the simulator reads and writes, and its observers.
simVars == <<results, rng, hash_salt, MODEL, entry_rng, workers>>

\* No call, no value: the variables' content outside a call.
None == [kind |-> "None"]

\* An Optional value: <<>> is Python's None, <<v>> the value v.
Nothing == <<>>

Some(v) == <<v>>

Raised(exc) == [kind |-> "raised", exc |-> exc]

Abs(x) == IF x < 0 THEN -x ELSE x

Sign(x) == IF x < 0 THEN -1 ELSE IF x > 0 THEN 1 ELSE 0

(***************************************************************************)
(* Exact arithmetic helpers.                                               *)
(***************************************************************************)

\* Python's round(): to the nearest, ties to the even neighbour.
\* q is the floor, r/d the fraction left over.
RoundHalfEven(q, r, d) ==
    IF 2 * r < d THEN q
    ELSE IF 2 * r > d THEN q + 1
    ELSE q + (q % 2)

\* <<floor(n * 10^k / d), remainder>> for n >= 0, d > 0, by long division.
RECURSIVE LongDiv(_, _, _)
LongDiv(n, d, k) ==
    IF k = 0 THEN <<n \div d, n % d>>
    ELSE LET p == LongDiv(n, d, k - 1)
         IN  <<p[1] * 10 + (p[2] * 10) \div d, (p[2] * 10) % d>>

\* round(n / d, k) in units of 10^-k, d # 0.
RoundDec(n, d, k) ==
    LET p == LongDiv(Abs(n), Abs(d), k)
    IN  Sign(n) * Sign(d) * RoundHalfEven(p[1], p[2], Abs(d))

\* The mixed number n * m / d, for m >= 0 and d > 0.
Mixed(n, m, d) ==
    LET a == Abs(n)
        t == (a % d) * m
    IN  [neg |-> n < 0, q |-> (a \div d) * m + t \div d, r |-> t % d, d |-> d]

\* x * k for a mixed number x and an integer k.
MixedMul(x, k) ==
    LET a == Abs(k)
        t == x.r * a
    IN  [neg |-> (x.neg /\ k > 0) \/ (~x.neg /\ k < 0),
         q |-> x.q * a + t \div x.d, r |-> t % x.d, d |-> x.d]

\* x / k for a mixed number x and an integer k # 0.
MixedDiv(x, k) ==
    LET a == Abs(k)
    IN  [neg |-> (x.neg /\ k > 0) \/ (~x.neg /\ k < 0),
         q |-> x.q \div a, r |-> (x.q % a) * x.d + x.r, d |-> x.d * a]

MixedIsZero(x) == x.q = 0 /\ x.r = 0

\* round(x, 0) of a mixed number, as a signed whole number.
MixedRound(x) ==
    (IF x.neg THEN -1 ELSE 1) * RoundHalfEven(x.q, x.r, x.d)

(***************************************************************************)
(* Program constants.                                                      *)
(***************************************************************************)

\* data.py:10 MMBTU_TO_TOE = 41.868, in thousandths.
MMBTU_TO_TOE == 41868

\* data.py:9 CO2_FACTOR = 0.07, in hundredths.
CO2_FACTOR == 7

\* calculator.py:70 default escert_price_inr.
DefaultPrice == 4000

\* calculator.py:71 default usd_inr_rate.
DefaultUsdInr == 83

\* calculator.py:72 default utilization, in percent.
DefaultUtilization == 85


\* models.py:9-18  DiffInDiffCoefficients(): the defaults, in thousandths
\* (n_observations: a count).
DiffInDiffCoefficients ==
    [avg_treatment_effect |-> -241, std_error |-> 171,
     early_entrant_effect |-> -518, late_entrant_effect |-> -22,
     large_refinery_adj |-> 85, r_squared |-> 843, n_observations |-> 117]

(***************************************************************************)
(* Bounds and input sets of the calculators.                               *)
(***************************************************************************)

\* How far, in the finest unit, an input is taken on either side of a target.
MaxGap == 4

\* crude_throughput_mt: non-positive values, one tonne, ten thousand tonnes.
ThroughputValues == {-1, 0, 1, 10000}

\* baseline_sec in 1/100 MMBTU/MT: 8.00 and the default 8.33.
BaselineValues == {800, 833}

\* target_reduction_pct: none, and the default 5.
ReductionPctValues == {0, 5}

\* total_energy_mmbtu: around each target of the values above at a
\* throughput of 10000 (7.6, 7.9135, 8.0, 8.33) and around the tests' 8.5.
EnergyValues ==
    {c + d : c \in {76000, 79135, 80000, 83300, 85000}, d \in -MaxGap..MaxGap}

\* target_sec of calculate_escerts in 1/10000 MMBTU/MT: the tests' 7.5.
TargetSecValues == {75000}

\* current_sec: around the target, the tests' 6.5, and a buyer at 8.5.
CurrentSecValues ==
    {75000 + d : d \in -MaxGap..MaxGap} \cup {65000, 85000}

\* capacity_mmtpa in 1/100 MMTPA: 0, the data's smallest 0.07, the tests' 10.0.
CapacityValues == {0, 7, 1000}

\* usd_inr_rate: zero and the default.
UsdInrValues == {0, DefaultUsdInr}

(***************************************************************************)
(* calculator.py: calculate_sec                                            *)
(***************************************************************************)

\* calculator.py:52  current_sec < target_sec, on the unrounded values:
\* E / T < b * (100 - p) / 10000, for T # 0.
current_lt_target_le(E, T, b, p) ==
    Sign(T) * E * 10000 <= b * (100 - p) * Abs(T)

current_lt_target(E, T, b, p) ==
    Sign(T) * E * 10000 < b * (100 - p) * Abs(T)

calculate_sec(E, T, b, p, capacity_utilization) ==
    IF T = 0 \/ b = 0 THEN Raised("ZeroDivisionError")
    ELSE
      LET saving == b * T - 100 * E   \* (baseline_sec - current_sec) * T * 100
      IN  [kind |-> "SECResult",
           current_sec |-> RoundDec(E, T, 3),                  \* 1/1000
           baseline_sec |-> b,                                 \* 1/100
           target_sec |-> RoundDec(b * (100 - p), 10, 0),      \* 1/1000
           reduction_pct |-> RoundDec(saving, b * T, 4),       \* 1/100 %
           is_compliant |-> current_lt_target(E, T, b, p),
           energy_savings_mmbtu |-> RoundDec(saving, 100, 0),
           co2_avoided_tonnes |-> RoundDec(saving * CO2_FACTOR, 10000, 0)]

(***************************************************************************)
(* calculator.py: calculate_escerts                                        *)
(***************************************************************************)

\* calculator.py:96  overachievement > 0
is_generator_ge(overachievement) == overachievement >= 0

is_generator_of(overachievement) == overachievement > 0

\* calculator.py:100  target_sec if overachievement < 0 else None
breakeven_le(overachievement, target_sec) ==
    IF overachievement <= 0 THEN Some(target_sec) ELSE Nothing

breakeven_of(overachievement, target_sec) ==
    IF overachievement < 0 THEN Some(target_sec) ELSE Nothing

\* calculator.py:97  round(escerts_toe, 0)
round_toe_trunc(x) == (IF x.neg THEN -1 ELSE 1) * x.q

round_toe(x) == MixedRound(x)

\* calculator.py:89-90  overachievement * annual_throughput / MMBTU_TO_TOE
\* = o/10^4 * (c/100 * 10^6 * u/100) / (MMBTU_TO_TOE/1000) TOE.
escerts_unrounded(o, c, u) == Mixed(o * c * u, 10, MMBTU_TO_TOE)

calculate_escerts(current_sec, target_sec, capacity_mmtpa, escert_price_inr, usd_inr_rate, utilization) ==
    IF usd_inr_rate = 0 THEN Raised("ZeroDivisionError")
    ELSE
      LET overachievement == target_sec - current_sec
          escerts_toe == escerts_unrounded(overachievement, capacity_mmtpa,
                                           utilization)
          value_inr == MixedMul(escerts_toe, escert_price_inr)
          value_usd == MixedDiv(value_inr, usd_inr_rate)
      IN  [kind |-> "ESCertResult",
           is_generator |-> is_generator_of(overachievement),
           escerts_toe |-> round_toe(escerts_toe),
           value_inr |-> MixedRound(value_inr),
           value_usd |-> MixedRound(value_usd),
           breakeven_sec |-> breakeven_of(overachievement, target_sec)]

(***************************************************************************)
(* The state outside any call.                                             *)
(***************************************************************************)

Idle ==
    /\ op = "none"
    /\ args = None
    /\ ret = None
    /\ pc = "idle"
    /\ idx = 0
    /\ total_generated = 0
    /\ total_required = 0
    /\ refinery_positions = <<>>
    /\ results = <<>>
    /\ rng = 0
    /\ hash_salt = 0
    /\ MODEL = DiffInDiffCoefficients
    /\ saved = None
    /\ entry_rng = 0
    /\ workers = <<>>

(***************************************************************************)
(* SpecCalc: a caller applying the two calculators to any inputs.          *)
(***************************************************************************)

CallCalculateSec ==
    \E E \in EnergyValues, T \in ThroughputValues,
       b \in BaselineValues, p \in ReductionPctValues :
        /\ op' = "calculate_sec"
        /\ args' = [total_energy_mmbtu |-> E, crude_throughput_mt |-> T,
                    baseline_sec |-> b, target_reduction_pct |-> p,
                    capacity_utilization |-> DefaultUtilization]
        /\ ret' = calculate_sec(E, T, b, p, DefaultUtilization)
        /\ UNCHANGED <<pc, portfolioVars, simVars, saved>>

CallCalculateEscerts ==
    \E cur \in CurrentSecValues, tgt \in TargetSecValues,
       cap \in CapacityValues, rate \in UsdInrValues :
        /\ op' = "calculate_escerts"
        /\ args' = [current_sec |-> cur, target_sec |-> tgt,
                    capacity_mmtpa |-> cap, escert_price_inr |-> DefaultPrice,
                    usd_inr_rate |-> rate, utilization |-> DefaultUtilization]
        /\ ret' = calculate_escerts(cur, tgt, cap, DefaultPrice, rate,
                                    DefaultUtilization)
        /\ UNCHANGED <<pc, portfolioVars, simVars, saved>>

InitCalc == Idle

NextCalc == CallCalculateSec \/ CallCalculateEscerts

SpecCalc == InitCalc /\ [][NextCalc]_vars

(***************************************************************************)
(* Claims about the calculators (checked under SpecCalc).                  *)
(***************************************************************************)

\* C1: for every call of calculate_sec with crude_throughput_mt > 0 a result
\* is returned whose is_compliant is true exactly when
\* total_energy / throughput < baseline_sec * (1 - target_reduction_pct/100);
\* a facility exactly at its target is reported non-compliant.
C1_CompliantIffStrictlyBelowTarget ==
    (op = "calculate_sec" /\ args.crude_throughput_mt > 0) =>
        /\ ret.kind = "SECResult"
        /\ ret.is_compliant <=>
             (args.total_energy_mmbtu * 10000
                < args.baseline_sec * (100 - args.target_reduction_pct)
                    * args.crude_throughput_mt)

\* C1 witness: a call with positive throughput whose current SEC equals its
\* target SEC, reported non-compliant.
C1_WitnessAtTarget ==
    /\ op = "calculate_sec"
    /\ args.crude_throughput_mt > 0
    /\ args.total_energy_mmbtu * 10000
         = args.baseline_sec * (100 - args.target_reduction_pct)
             * args.crude_throughput_mt
    /\ ret.kind = "SECResult"
    /\ ret.is_compliant = FALSE

\* C2: every result of calculate_escerts has is_generator equal to
\* (target_sec - current_sec > 0); it is false when the two are equal.
C2_GeneratorIffPositiveOverachievement ==
    (op = "calculate_escerts" /\ ret.kind = "ESCertResult") =>
        (ret.is_generator <=> (args.target_sec - args.current_sec > 0))

\* C2 witness: a result for current_sec = target_sec, not a generator.
C2_WitnessAtTarget ==
    /\ op = "calculate_escerts"
    /\ ret.kind = "ESCertResult"
    /\ args.current_sec = args.target_sec
    /\ ret.is_generator = FALSE

\* C3 as claimed: breakeven_sec is set if and only if is_generator is false,
\* the case current_sec = target_sec included.
C3_BreakevenIffNotGenerator ==
    (op = "calculate_escerts" /\ ret.kind = "ESCertResult") =>
        ((ret.breakeven_sec # Nothing) <=> ~ret.is_generator)

\* C3 as amended: breakeven_sec is set (to target_sec) if and only if
\* current_sec > target_sec; a generator never has one, and at
\* current_sec = target_sec the result is no generator and has none either.
C3_BreakevenIffBuyer ==
    (op = "calculate_escerts" /\ ret.kind = "ESCertResult") =>
        /\ (ret.breakeven_sec # Nothing) <=> (args.current_sec > args.target_sec)
        /\ (ret.breakeven_sec # Nothing) =>
               ret.breakeven_sec = Some(args.target_sec)
        /\ ret.is_generator => ret.breakeven_sec = Nothing
        /\ (args.current_sec = args.target_sec) =>
               (~ret.is_generator /\ ret.breakeven_sec = Nothing)

\* C3 witness: a result exactly at target: no generator, no breakeven_sec.
C3_WitnessAtTargetNoBreakeven ==
    /\ op = "calculate_escerts"
    /\ ret.kind = "ESCertResult"
    /\ args.current_sec = args.target_sec
    /\ ~ret.is_generator
    /\ ret.breakeven_sec = Nothing

\* C4 as claimed: with current_sec < target_sec and positive capacity and
\* utilization the result is a generator with escerts_toe > 0.
C4_GeneratorHasPositiveCertificates ==
    (/\ op = "calculate_escerts"
     /\ ret.kind = "ESCertResult"
     /\ args.current_sec < args.target_sec
     /\ args.capacity_mmtpa > 0
     /\ args.utilization > 0) =>
        (ret.is_generator /\ ret.escerts_toe > 0)

\* C4 as amended: with current_sec < target_sec and positive capacity and
\* utilization the result is a generator with escerts_toe >= 0, and
\* escerts_toe > 0 exactly when the quantity before rounding,
\* (target - current) * capacity * 1e6 * utilization / 41.868, exceeds 0.5.
C4_GeneratorCertificatesRoundedFromHalf ==
    (/\ op = "calculate_escerts"
     /\ ret.kind = "ESCertResult"
     /\ args.current_sec < args.target_sec
     /\ args.capacity_mmtpa > 0
     /\ args.utilization > 0) =>
        /\ ret.is_generator
        /\ ret.escerts_toe >= 0
        /\ (ret.escerts_toe > 0) <=>
             ((args.target_sec - args.current_sec) * args.capacity_mmtpa
                 * args.utilization > MMBTU_TO_TOE \div 20)

\* C4 witness: a generator whose quantity before rounding lies between 0.5
\* and 1 TOE, returned as 1.
C4_WitnessRoundedUpToOne ==
    /\ op = "calculate_escerts"
    /\ ret.kind = "ESCertResult"
    /\ args.current_sec < args.target_sec
    /\ args.capacity_mmtpa > 0
    /\ (args.target_sec - args.current_sec) * args.capacity_mmtpa
          * args.utilization * 10 < MMBTU_TO_TOE
    /\ ret.is_generator
    /\ ret.escerts_toe = 1

\* C11 as claimed: calculate_sec called with crude_throughput_mt <= 0 fails
\* (any exception is taken for the DomainError) and returns no SECResult.
C11_NonPositiveThroughputFails ==
    (op = "calculate_sec" /\ args.crude_throughput_mt <= 0) =>
        ret.kind = "raised"

\* C12 as claimed: calculate_escerts called with capacity_mmtpa <= 0 or
\* usd_inr_rate <= 0 fails (any exception is taken for the DomainError) and
\* returns no ESCertResult; with both strictly positive it returns one.
C12_NonPositiveCapacityOrRateFails ==
    op = "calculate_escerts" =>
        IF args.capacity_mmtpa <= 0 \/ args.usd_inr_rate <= 0
        THEN ret.kind = "raised"
        ELSE ret.kind = "ESCertResult"

(***************************************************************************)
(* calculator.py: calculate_portfolio_escerts                              *)
(***************************************************************************)

\* Most rows of a facility table in one call.
MaxFacilities == 2

\* calculator.py:132, 141  the divisor 1e7 (rupees per crore).
CRORE == 10000000

\* The rows a facility table is made of.  A cell holds a number, Some(v),
\* or something that is no number (a string in an object column), Nothing.
\* GEN beats its target by 1.0 at 1.0 MMTPA, TINY by 0.0004 at 0.07 MMTPA,
\* BUYER misses it by 1.0 at 0.07 MMTPA, EVEN is exactly at target,
\* BAD has a current_sec that is no number, and NEG misses its target by 1.0
\* with a capacity entered as -0.07 MMTPA.
FacilityRows ==
    { [refinery |-> "GEN", current_sec |-> Some(65000), target_sec |-> Some(75000), capacity_mmtpa |-> Some(100)],
      [refinery |-> "TINY", current_sec |-> Some(74996), target_sec |-> Some(75000), capacity_mmtpa |-> Some(7)],
      [refinery |-> "BUYER", current_sec |-> Some(85000), target_sec |-> Some(75000), capacity_mmtpa |-> Some(7)],
      [refinery |-> "EVEN", current_sec |-> Some(75000), target_sec |-> Some(75000), capacity_mmtpa |-> Some(7)],
      [refinery |-> "BAD", current_sec |-> Nothing, target_sec |-> Some(75000), capacity_mmtpa |-> Some(7)],
      [refinery |-> "NEG", current_sec |-> Some(85000), target_sec |-> Some(75000), capacity_mmtpa |-> Some(-7)] }

\* refineries_df: the tables of at most MaxFacilities rows, the empty one too.
FacilityTables == UNION { [1..n -> FacilityRows] : n \in 0..MaxFacilities }

\* escert_price_inr: the default, and PAT cycle I's 100 (data.py:65).
PriceValues == {100, DefaultPrice}

\* calculator.py:119-122  calculate_escerts on a row's cells; the subtraction
\* at calculator.py:88 raises TypeError on a cell that is no number.
calculate_escerts_row(row, escert_price_inr) ==
    IF row.current_sec = Nothing \/ row.target_sec = Nothing
         \/ row.capacity_mmtpa = Nothing
    THEN Raised("TypeError")
    ELSE calculate_escerts(row.current_sec[1], row.target_sec[1],
                           row.capacity_mmtpa[1], escert_price_inr,
                           DefaultUsdInr, DefaultUtilization)

\* calculator.py:129-133  the entry appended for a row.
position_of(row, result) ==
    [refinery |-> row.refinery,
     escerts_toe |-> result.escerts_toe,
     value_inr_cr |-> [num |-> result.value_inr, den |-> CRORE]]

\* calculator.py:129  refinery_positions.append(...)
append_position_front(positions, entry) == <<entry>> \o positions

append_position(positions, entry) == Append(positions, entry)

\* calculator.py:141  abs(net_balance) * escert_price_inr / 1e7
market_value_signed(net_balance, escert_price_inr) ==
    [num |-> net_balance * escert_price_inr, den |-> CRORE]

market_value_of(net_balance, escert_price_inr) ==
    [num |-> Abs(net_balance) * escert_price_inr, den |-> CRORE]

\* calculator.py:135-144  the returned dict.
portfolio_dict(generated, required, positions, escert_price_inr) ==
    LET net_balance == generated - required
    IN  [kind |-> "dict",
         total_generated_toe |-> generated,
         total_required_toe |-> required,
         net_balance_toe |-> net_balance,
         market_value_inr_cr |-> market_value_of(net_balance, escert_price_inr),
         is_surplus |-> net_balance > 0,
         positions |-> positions]

\* calculator.py:114-116  the call: the accumulators are initialised.
PortfolioCall ==
    /\ pc = "idle"
    /\ \E rows \in FacilityTables, price \in PriceValues :
         args' = [refineries_df |-> rows, escert_price_inr |-> price]
    /\ op' = "calculate_portfolio_escerts"
    /\ ret' = None
    /\ pc' = "loop"
    /\ idx' = 1
    /\ total_generated' = 0
    /\ total_required' = 0
    /\ refinery_positions' = <<>>
    /\ UNCHANGED <<simVars, saved>>

\* calculator.py:118-133  one iteration of the loop.  An exception raised by
\* calculate_escerts is caught nowhere: it leaves the function, whose
\* locals are gone with it, as they are after a return.
PortfolioIterate ==
    /\ pc = "loop"
    /\ op = "calculate_portfolio_escerts"
    /\ idx <= Len(args.refineries_df)
    /\ LET row == args.refineries_df[idx]
           result == calculate_escerts_row(row, args.escert_price_inr)
       IN  IF result.kind = "raised"
           THEN /\ ret' = result
                /\ pc' = "idle"
                /\ idx' = 0
                /\ total_generated' = 0
                /\ total_required' = 0
                /\ refinery_positions' = <<>>
           ELSE /\ IF result.is_generator
                   THEN /\ total_generated' = total_generated + result.escerts_toe
                        /\ UNCHANGED total_required
                   ELSE /\ total_required' = total_required + Abs(result.escerts_toe)
                        /\ UNCHANGED total_generated
                /\ refinery_positions' =
                       append_position(refinery_positions, position_of(row, result))
                /\ idx' = idx + 1
                /\ UNCHANGED <<ret, pc>>
    /\ UNCHANGED <<op, args, simVars, saved>>

\* calculator.py:135-144  after the last row: the dict is returned.
PortfolioReturn ==
    /\ pc = "loop"
    /\ op = "calculate_portfolio_escerts"
    /\ idx > Len(args.refineries_df)
    /\ ret' = portfolio_dict(total_generated, total_required,
                             refinery_positions, args.escert_price_inr)
    /\ pc' = "idle"
    /\ idx' = 0
    /\ total_generated' = 0
    /\ total_required' = 0
    /\ refinery_positions' = <<>>
    /\ UNCHANGED <<op, args, simVars, saved>>

\* The observer keeps the call that has just returned, to compare a later
\* call with it.  No program state changes.
Remember ==
    /\ pc = "idle"
    /\ op # "none"
    /\ ret.kind # "raised"
    /\ saved' = [kind |-> "call", op |-> op, args |-> args, ret |-> ret]
    /\ saved # saved'
    /\ UNCHANGED <<op, args, ret, pc, portfolioVars, simVars>>

InitPortfolio == Idle

NextPortfolio ==
    PortfolioCall \/ PortfolioIterate \/ PortfolioReturn \/ Remember

SpecPortfolio == InitPortfolio /\ [][NextPortfolio]_vars

(***************************************************************************)
(* Claims about the portfolio aggregation (checked under SpecPortfolio).   *)
(***************************************************************************)

PortfolioEnded == op = "calculate_portfolio_escerts" /\ pc = "idle"

PortfolioReturned == PortfolioEnded /\ ret.kind = "dict"

IsMalformed(row) == calculate_escerts_row(row, DefaultPrice).kind = "raised"

\* The number of places of sequence s that hold x.
Count(s, x) == Cardinality({i \in DOMAIN s : s[i] = x})

IsPermutation(s, t) ==
    /\ Len(s) = Len(t)
    /\ \A i \in DOMAIN s : Count(s, s[i]) = Count(t, s[i])

\* C8 as claimed: when a row of the table makes calculate_escerts raise, the
\* call still returns a result, and every other facility is in it: the batch
\* is not aborted.
C8_MalformedFacilityDoesNotAbortBatch ==
    PortfolioEnded =>
        /\ ret.kind = "dict"
        /\ \A i \in DOMAIN args.refineries_df :
             ~IsMalformed(args.refineries_df[i]) =>
                 \E j \in DOMAIN ret.positions :
                     ret.positions[j].refinery = args.refineries_df[i].refinery

\* C9: the returned dict satisfies net_balance_toe = total_generated_toe -
\* total_required_toe, market_value_inr_cr = |net_balance_toe| *
\* escert_price_inr / 1e7 and is_surplus = (net_balance_toe > 0), for every
\* table, the empty one included.
C9_PortfolioBalanceIdentities ==
    PortfolioReturned =>
        /\ ret.net_balance_toe = ret.total_generated_toe - ret.total_required_toe
        /\ ret.market_value_inr_cr.den = CRORE
        /\ ret.market_value_inr_cr.num =
              (IF ret.net_balance_toe < 0 THEN -ret.net_balance_toe
               ELSE ret.net_balance_toe) * args.escert_price_inr
        /\ ret.is_surplus <=> (ret.net_balance_toe > 0)

\* C9 witness: a returned dict of a portfolio in deficit, whose market value
\* is positive and which is no surplus.
C9_WitnessDeficit ==
    /\ PortfolioReturned
    /\ ret.net_balance_toe < 0
    /\ ret.market_value_inr_cr.num > 0
    /\ ~ret.is_surplus

\* C10: a call on a permutation of the rows of an earlier call (same price)
\* returns the same total_generated_toe, total_required_toe and
\* net_balance_toe, and the positions list of every call has one entry per
\* row, in the order of the rows.
C10_TotalsPermutationInvariantPositionsInOrder ==
    PortfolioReturned =>
        /\ Len(ret.positions) = Len(args.refineries_df)
        /\ \A i \in DOMAIN args.refineries_df :
             ret.positions[i].refinery = args.refineries_df[i].refinery
        /\ (/\ saved.kind = "call"
            /\ saved.op = "calculate_portfolio_escerts"
            /\ saved.args.escert_price_inr = args.escert_price_inr
            /\ IsPermutation(saved.args.refineries_df, args.refineries_df)) =>
               /\ saved.ret.total_generated_toe = ret.total_generated_toe
               /\ saved.ret.total_required_toe = ret.total_required_toe
               /\ saved.ret.net_balance_toe = ret.net_balance_toe

\* C10 witness: two calls on the same two different rows in opposite orders,
\* a generator and a buyer, both returned.
C10_WitnessSwappedRows ==
    /\ PortfolioReturned
    /\ saved.kind = "call"
    /\ saved.op = "calculate_portfolio_escerts"
    /\ Len(args.refineries_df) = 2
    /\ args.refineries_df[1] # args.refineries_df[2]
    /\ saved.args.refineries_df =
          <<args.refineries_df[2], args.refineries_df[1]>>
    /\ ret.total_generated_toe > 0
    /\ ret.total_required_toe > 0
    /\ ret.positions[1].refinery = args.refineries_df[1].refinery

(***************************************************************************)
(* models.py: the simulator.                                               *)
(*                                                                         *)
(* Units: baseline_sec and target_sec in 1/10 MMBTU/MT (the data's         *)
(* resolution), percentages in 1/10 %, simulated SECs in 1/10000 MMBTU/MT, *)
(* capacity_mmtpa in 1/100 MMTPA.  A fraction is a record [num, den].      *)
(*                                                                         *)
(* numpy's generator is modelled by a small cyclic generator: a state, a   *)
(* deterministic seeding, and a standard normal deviate (in whole standard *)
(* deviations, -2..2) drawn from each state in turn.                       *)
(***************************************************************************)

\* The number of states of the generator model.
RngStates == 5

\* Explicit seeds passed by a caller: 0..MaxSeed.
MaxSeed == 1

\* n_simulations of a direct call: 1..MaxSims.
MaxSims == 3

\* n_simulations of a batch forecast; stands for the 5000 of models.py:105.
BatchSims == 2

\* The interpreter's string-hash salts: 0..MaxSalt.
MaxSalt == 1

\* Most rows of a facility table in one batch forecast.
MaxBatch == 2

\* The number of seeds left by "% 2**32" (models.py:105); stands for 2**32.
SeedSpace == 5

\* models.py:55  default std_error_pct = 17.1, in 1/10 %.
DefaultStdErrorPct == 171

RngStateSet == 0..(RngStates - 1)

\* models.py:76  the generator's step from one deviate to the next.
mt_next(s) == (s + 1) % RngStates

\* models.py:76  the standard normal deviate drawn in state s.
mt_normal(s) == ((2 * s) % 5) - 2

\* models.py:73  np.random.seed(seed): the state a seed puts the generator in.
seed_state(seed) == seed % RngStates

\* models.py:72-73  if seed is not None: np.random.seed(seed)
seeded_state_ignored(seed, state) == state

seeded_state(seed, state) ==
    IF seed # Nothing THEN seed_state(seed[1]) ELSE state

\* models.py:76  np.random.normal(loc, scale, n) from state s:
\* <<the n samples, the state left behind>>.
RECURSIVE normal(_, _, _, _)
normal(loc, scale, n, s) ==
    IF n = 0 THEN << <<>>, s >>
    ELSE LET rest == normal(loc, scale, n - 1, mt_next(s))
         IN  << <<loc + scale * mt_normal(s)>> \o rest[1], rest[2] >>

\* Sorting, as np.percentile sorts its sample.
RECURSIVE Insert(_, _)
Insert(sorted, x) ==
    IF sorted = <<>> THEN <<x>>
    ELSE IF x <= Head(sorted) THEN <<x>> \o sorted
    ELSE <<Head(sorted)>> \o Insert(Tail(sorted), x)

RECURSIVE Sort(_)
Sort(seq) == IF seq = <<>> THEN <<>> ELSE Insert(Sort(Tail(seq)), Head(seq))

\* models.py:83-84  np.percentile(a, q) with q = q40 / 40 of 100 (2.5 is
\* 1/40, 97.5 is 39/40), by linear interpolation between the two nearest
\* order statistics; the result is the fraction num / 40.
percentile_unsorted(a, q40) ==
    LET n == Len(a)
        pos == q40 * (n - 1)
        lo == pos \div 40
        frac == pos % 40
        hi == IF lo + 1 <= n - 1 THEN lo + 1 ELSE lo
    IN  [num |-> 40 * a[lo + 1] + frac * (a[hi + 1] - a[lo + 1]),
         den |-> 40]

percentile(a, q40) ==
    LET sorted == Sort(a)
        n == Len(a)
        pos == q40 * (n - 1)
        lo == pos \div 40
        frac == pos % 40
        hi == IF lo + 1 <= n - 1 THEN lo + 1 ELSE lo
    IN  [num |-> 40 * sorted[lo + 1] + frac * (sorted[hi + 1] - sorted[lo + 1]),
         den |-> 40]

\* models.py:80  simulated_secs < target_sec, one sample (in 1/10000) against
\* the target (in 1/10).
sec_below_target_le(sec, target_sec) == sec <= target_sec * 1000

sec_below_target(sec, target_sec) == sec < target_sec * 1000

\* models.py:76-86  the simulation from generator state s:
\* [ret |-> the returned tuple, rng |-> the state left behind].
simulate(baseline_sec, target_sec, predicted_reduction_pct, n_simulations, std_error_pct, s) ==
    LET drawn == normal(predicted_reduction_pct, std_error_pct, n_simulations, s)
        simulated_effects == drawn[1]
        simulated_secs == [i \in 1..n_simulations |->
                              baseline_sec * (1000 - simulated_effects[i])]
        below == {i \in 1..n_simulations :
                     sec_below_target(simulated_secs[i], target_sec)}
    IN  [ret |-> [kind |-> "tuple",
                  compliance_prob |-> [num |-> 100 * Cardinality(below),
                                       den |-> n_simulations],
                  ci_lower |-> percentile(simulated_secs, 1),
                  ci_upper |-> percentile(simulated_secs, 39),
                  simulated_secs |-> simulated_secs],
         rng |-> drawn[2]]

\* models.py:50-86  monte_carlo_compliance, called in generator state s.
monte_carlo_compliance(baseline_sec, target_sec, predicted_reduction_pct, n_simulations, std_error_pct, seed, s) ==
    simulate(baseline_sec, target_sec, predicted_reduction_pct,
             n_simulations, std_error_pct, seeded_state(seed, s))

\* models.py:40  if pat_cycle_entry <= 2
is_early_entrant_first(pat_cycle_entry) == pat_cycle_entry <= 1

is_early_entrant(pat_cycle_entry) == pat_cycle_entry <= 2

\* models.py:46  ... if capacity_mmtpa > 10 else 0
is_large_refinery_ge(capacity_mmtpa) == capacity_mmtpa >= 1000

is_large_refinery(capacity_mmtpa) == capacity_mmtpa > 1000

\* models.py:23-48  predict_sec_reduction, in 1/10 %.
predict_sec_reduction(pat_cycle_entry, capacity_mmtpa, model) ==
    LET base_effect == IF is_early_entrant(pat_cycle_entry)
                       THEN Abs(model.early_entrant_effect)
                       ELSE Abs(model.late_entrant_effect)
        size_adj == IF is_large_refinery(capacity_mmtpa)
                    THEN -model.large_refinery_adj
                    ELSE 0
    IN  base_effect + size_adj

\* models.py:40-48  the coefficients object after predict_sec_reduction has
\* used it: its fields are read, none is assigned.
model_after_predict_rescaled(model) ==
    [model EXCEPT !.large_refinery_adj = 0]

model_after_predict(model) == model

\* The facility names as numbers, for the string hash.
NameCode(name) ==
    CASE name = "IOCL Panipat" -> 1
      [] name = "BORL Bina" -> 2
      [] name = "IOCL Paradip" -> 3
      [] OTHER -> 0

\* models.py:105  hash(str): Python salts the hash of a string with a key
\* drawn when the interpreter starts (PYTHONHASHSEED unset), so the value
\* is a function of the string and of the process's salt.
\* It may be negative.
str_hash(name, salt) == (NameCode(name) + 1) * (salt + 2) - 4

\* models.py:105  seed=hash(row['refinery']) % 2**32
row_seed(row, salt) == str_hash(row.refinery, salt) % SeedSpace

\* models.py:117  'High' if prob >= 70 else ('Medium' if prob >= 40 else
\* 'At Risk'), on the unrounded probability prob.num / prob.den.
status_of_gt(prob) ==
    IF prob.num > 70 * prob.den THEN "High"
    ELSE IF prob.num > 40 * prob.den THEN "Medium"
    ELSE "At Risk"

status_of(prob) ==
    IF prob.num >= 70 * prob.den THEN "High"
    ELSE IF prob.num >= 40 * prob.den THEN "Medium"
    ELSE "At Risk"

\* models.py:108-118  the dict appended for a row.
forecast_of(row, pred_reduction, mc) ==
    [refinery |-> row.refinery,
     baseline_sec |-> row.baseline_sec,
     target_sec |-> row.target_sec,
     predicted_sec |-> RoundDec(row.baseline_sec * (1000 - pred_reduction), 10000, 2),
     predicted_reduction_pct |-> pred_reduction,
     compliance_probability |-> RoundDec(mc.compliance_prob.num, mc.compliance_prob.den, 1),
     ci_lower |-> RoundDec(mc.ci_lower.num, mc.ci_lower.den * 10000, 2),
     ci_upper |-> RoundDec(mc.ci_upper.num, mc.ci_upper.den * 10000, 2),
     status |-> status_of(mc.compliance_prob)]

\* models.py:100-118  one row of the batch, run in generator state s with
\* hash salt `salt`: [forecast |-> the dict, rng |-> the state left behind].
forecast_row(row, model, salt, s) ==
    LET pred_reduction == predict_sec_reduction(row.pat_cycle_entry,
                                                row.capacity_mmtpa, model)
        mc == monte_carlo_compliance(row.baseline_sec, row.target_sec,
                                     pred_reduction, BatchSims,
                                     DefaultStdErrorPct,
                                     Some(row_seed(row, salt)), s)
    IN  [forecast |-> forecast_of(row, pred_reduction, mc.ret), rng |-> mc.rng]

\* Rows of the facility table of data.py:14-38: an early large entrant and
\* a late small one.
ForecastRows ==
    { [refinery |-> "IOCL Panipat", pat_cycle_entry |-> 1, capacity_mmtpa |-> 1500, baseline_sec |-> 82, target_sec |-> 78],
      [refinery |-> "BORL Bina", pat_cycle_entry |-> 3, capacity_mmtpa |-> 780, baseline_sec |-> 81, target_sec |-> 77] }

ForecastTables == UNION { [1..n -> ForecastRows] : n \in 0..MaxBatch }

\* predicted_reduction_pct of a direct call: the late entrants' 2.2 and 10.0.
PredictedReductionValues == {22, 100}

\* seed of a direct call: None or 0..MaxSeed.
SeedValues == {Nothing} \cup {Some(k) : k \in 0..MaxSeed}

(***************************************************************************)
(* SpecSim: a caller making seeded and unseeded calls of the simulator in  *)
(* one interpreter process.  SpecBatch: batch forecasts, in interpreter    *)
(* processes that start and end.                                           *)
(***************************************************************************)

\* models.py:50-86  a call of monte_carlo_compliance with baseline 10.0 and
\* target 9.0.
MonteCarloCall ==
    /\ pc = "idle"
    /\ \E pred \in PredictedReductionValues, n \in 1..MaxSims, seed \in SeedValues :
         LET mc == monte_carlo_compliance(100, 90, pred, n, DefaultStdErrorPct, seed, rng)
         IN  /\ args' = [baseline_sec |-> 100, target_sec |-> 90,
                         predicted_reduction_pct |-> pred, n_simulations |-> n,
                         std_error_pct |-> DefaultStdErrorPct, seed |-> seed]
             /\ ret' = mc.ret
             /\ rng' = mc.rng
    /\ op' = "monte_carlo_compliance"
    /\ entry_rng' = rng
    /\ UNCHANGED <<pc, portfolioVars, results, hash_salt, MODEL, saved, workers>>

\* models.py:98  a call of batch_compliance_forecast: results = [].
BatchCall ==
    /\ pc = "idle"
    /\ \E rows \in ForecastTables : args' = [refineries_df |-> rows]
    /\ op' = "batch_compliance_forecast"
    /\ ret' = None
    /\ pc' = "batch"
    /\ idx' = 1
    /\ results' = <<>>
    /\ entry_rng' = rng
    /\ UNCHANGED <<total_generated, total_required, refinery_positions, rng,
                   hash_salt, MODEL, saved, workers>>

\* models.py:99-118  one iteration of the loop.
BatchIterate ==
    /\ pc = "batch"
    /\ idx <= Len(args.refineries_df)
    /\ LET out == forecast_row(args.refineries_df[idx], MODEL, hash_salt, rng)
       IN  /\ results' = Append(results, out.forecast)
           /\ rng' = out.rng
    /\ idx' = idx + 1
    /\ UNCHANGED <<op, args, ret, pc, total_generated, total_required,
                   refinery_positions, hash_salt, MODEL, saved, entry_rng,
                   workers>>

\* models.py:120  return results.
BatchReturn ==
    /\ pc = "batch"
    /\ idx > Len(args.refineries_df)
    /\ ret' = [kind |-> "list", items |-> results]
    /\ pc' = "idle"
    /\ idx' = 0
    /\ results' = <<>>
    /\ UNCHANGED <<op, args, total_generated, total_required,
                   refinery_positions, rng, hash_salt, MODEL, saved,
                   entry_rng, workers>>

\* The interpreter process ends and another starts: a fresh hash salt, a
\* generator seeded from the system's entropy, the module-level MODEL built
\* anew.  Only the observer's record outlives the process.
NewInterpreter ==
    /\ pc = "idle"
    /\ op # "none"
    /\ op' = "none"
    /\ args' = None
    /\ ret' = None
    /\ idx' = 0
    /\ total_generated' = 0
    /\ total_required' = 0
    /\ refinery_positions' = <<>>
    /\ results' = <<>>
    /\ rng' \in RngStateSet
    /\ hash_salt' \in 0..MaxSalt
    /\ MODEL' = DiffInDiffCoefficients
    /\ entry_rng' = 0
    /\ UNCHANGED <<pc, saved, workers>>

InitSim ==
    /\ op = "none"
    /\ args = None
    /\ ret = None
    /\ pc = "idle"
    /\ idx = 0
    /\ total_generated = 0
    /\ total_required = 0
    /\ refinery_positions = <<>>
    /\ results = <<>>
    /\ rng \in RngStateSet
    /\ hash_salt \in 0..MaxSalt
    /\ MODEL = DiffInDiffCoefficients
    /\ saved = None
    /\ entry_rng = 0
    /\ workers = <<>>

NextSim == MonteCarloCall \/ Remember

SpecSim == InitSim /\ [][NextSim]_vars

InitBatch == InitSim

NextBatch ==
    BatchCall \/ BatchIterate \/ BatchReturn \/ NewInterpreter \/ Remember

SpecBatch == InitBatch /\ [][NextBatch]_vars

(***************************************************************************)
(* SpecPredict: a caller applying predict_sec_reduction to any cohort and  *)
(* capacity, with the module's MODEL as the coefficients.                  *)
(***************************************************************************)

\* pat_cycle_entry of a direct call: 0..MaxCycle.
MaxCycle == 4

\* capacity_mmtpa of a direct call, in 1/100 MMTPA, around the 10 of
\* models.py:46.
PredictCapacityValues == {500, 999, 1000, 1001, 1500}

\* models.py:23-48  a call of predict_sec_reduction.
PredictCall ==
    /\ pc = "idle"
    /\ \E entry \in 0..MaxCycle, cap \in PredictCapacityValues :
         /\ args' = [pat_cycle_entry |-> entry, capacity_mmtpa |-> cap]
         /\ ret' = [kind |-> "float",
                    value |-> predict_sec_reduction(entry, cap, MODEL)]
    /\ op' = "predict_sec_reduction"
    /\ MODEL' = model_after_predict(MODEL)
    /\ UNCHANGED <<pc, portfolioVars, results, rng, hash_salt, saved,
                   entry_rng, workers>>

InitPredict == InitSim

NextPredict == PredictCall \/ Remember

SpecPredict == InitPredict /\ [][NextPredict]_vars

(***************************************************************************)
(* SpecRecord: the record batch_compliance_forecast builds for a row       *)
(* (models.py:108-118) from whatever the row's 5000-sample simulation      *)
(* returned.  The small generator above cannot give the sample counts of   *)
(* 5000 draws, so the count of samples below the target is drawn from the  *)
(* counts around the two status cutoffs and the two extremes.              *)
(***************************************************************************)

\* models.py:105  n_simulations=5000
SimsPerRow == 5000

\* How far, in samples, the count of samples below target is taken on
\* either side of a status cutoff.
CountGap == 25

\* The counts of samples below target_sec, out of SimsPerRow.
BelowCounts ==
    {0, SimsPerRow}
      \cup {(c * SimsPerRow) \div 100 + d : c \in {40, 70}, d \in -CountGap..CountGap}

\* models.py:86  the tuple returned for a row when k of its samples lie
\* below target_sec (the sample itself is dropped by models.py:103); the
\* bounds are half a unit outside the row's target and baseline.
row_outcome(row, k) ==
    [kind |-> "tuple",
     compliance_prob |-> [num |-> 100 * k, den |-> SimsPerRow],
     ci_lower |-> [num |-> row.target_sec * 1000 - 5000, den |-> 1],
     ci_upper |-> [num |-> row.baseline_sec * 1000 + 5000, den |-> 1]]

\* models.py:100-118  one row's record.
ForecastRecord ==
    /\ pc = "idle"
    /\ \E row \in ForecastRows, k \in BelowCounts :
         LET pred_reduction == predict_sec_reduction(row.pat_cycle_entry,
                                                     row.capacity_mmtpa, MODEL)
             mc == row_outcome(row, k)
         IN  /\ args' = [row |-> row, mc |-> mc]
             /\ ret' = [kind |-> "dict",
                        record |-> forecast_of(row, pred_reduction, mc)]
    /\ op' = "forecast_record"
    /\ UNCHANGED <<pc, portfolioVars, simVars, saved>>

InitRecord == Idle

NextRecord == ForecastRecord

SpecRecord == InitRecord /\ [][NextRecord]_vars

(***************************************************************************)
(* SpecLib: any sequence of calls of the three operations of models.py in  *)
(* one interpreter process.                                                *)
(***************************************************************************)

InitLib == InitSim

NextLib ==
    PredictCall \/ MonteCarloCall \/ BatchCall \/ BatchIterate \/ BatchReturn

SpecLib == InitLib /\ [][NextLib]_vars

(***************************************************************************)
(* Claims about the simulator (checked under SpecSim and SpecBatch).       *)
(***************************************************************************)

MonteCarloReturned == op = "monte_carlo_compliance" /\ pc = "idle"

BatchReturned ==
    op = "batch_compliance_forecast" /\ pc = "idle" /\ ret.kind = "list"

\* C5: a call of monte_carlo_compliance with a seed returns the same
\* compliance probability, ci_lower, ci_upper and sample as an earlier call
\* with the same arguments and seed, whatever calls were made in between
\* and whatever state they left the generator in.
C5_SeededCallsRepeat ==
    (/\ MonteCarloReturned
     /\ args.seed # Nothing
     /\ saved.kind = "call"
     /\ saved.op = "monte_carlo_compliance"
     /\ saved.args = args) =>
        /\ saved.ret.compliance_prob = ret.compliance_prob
        /\ saved.ret.ci_lower = ret.ci_lower
        /\ saved.ret.ci_upper = ret.ci_upper
        /\ saved.ret.simulated_secs = ret.simulated_secs

\* C5 witness: a seeded call that found the generator in a state its seed
\* does not give, after an earlier call with the same arguments and seed.
C5_WitnessRepeatedAfterOtherCalls ==
    /\ MonteCarloReturned
    /\ args.seed # Nothing
    /\ saved.kind = "call"
    /\ saved.op = "monte_carlo_compliance"
    /\ saved.args = args
    /\ entry_rng # seed_state(args.seed[1])
    /\ args.n_simulations > 1
    /\ saved.ret = ret

\* C6 as claimed: a batch forecast returns the same forecasts as an earlier
\* batch forecast of the same table, in whichever interpreter process each
\* of the two ran.
C6_BatchForecastsRepeatAcrossProcesses ==
    (/\ BatchReturned
     /\ saved.kind = "call"
     /\ saved.op = "batch_compliance_forecast"
     /\ saved.args = args) =>
        saved.ret = ret

(***************************************************************************)
(* SpecConc: the seeded simulations of one batch run by concurrent worker  *)
(* threads of one process, one row each, without coordination.  The        *)
(* generator is numpy's process-global one (models.py:73, 76 use           *)
(* np.random), so the threads share it; each of the two numpy calls is     *)
(* one step.                                                               *)
(***************************************************************************)

\* models.py:72-73  worker i seeds the generator with its row's seed.
WorkerSeed(i) ==
    /\ workers[i].pc = "seed"
    /\ rng' = seeded_state(Some(row_seed(args.refineries_df[i], hash_salt)), rng)
    /\ workers' = [workers EXCEPT ![i].pc = "draw"]
    /\ UNCHANGED <<op, args, ret, pc, portfolioVars, results, hash_salt, MODEL,
                   saved, entry_rng>>

\* models.py:76-118  worker i draws its samples from the generator as it
\* finds it, and builds its row's forecast.
WorkerDraw(i) ==
    /\ workers[i].pc = "draw"
    /\ LET row == args.refineries_df[i]
           pred_reduction == predict_sec_reduction(row.pat_cycle_entry,
                                                   row.capacity_mmtpa, MODEL)
           mc == simulate(row.baseline_sec, row.target_sec, pred_reduction,
                          BatchSims, DefaultStdErrorPct, rng)
       IN  /\ rng' = mc.rng
           /\ workers' = [workers EXCEPT
                            ![i] = [pc |-> "done",
                                    forecast |-> forecast_of(row, pred_reduction, mc.ret)]]
    /\ UNCHANGED <<op, args, ret, pc, portfolioVars, results, hash_salt, MODEL,
                   saved, entry_rng>>

InitConc ==
    /\ op = "batch_compliance_forecast"
    /\ \E rows \in ForecastTables :
         /\ Len(rows) >= 1
         /\ args = [refineries_df |-> rows]
         /\ workers = [i \in 1..Len(rows) |-> [pc |-> "seed", forecast |-> None]]
    /\ ret = None
    /\ pc = "parallel"
    /\ idx = 0
    /\ total_generated = 0
    /\ total_required = 0
    /\ refinery_positions = <<>>
    /\ results = <<>>
    /\ rng \in RngStateSet
    /\ hash_salt \in 0..MaxSalt
    /\ MODEL = DiffInDiffCoefficients
    /\ saved = None
    /\ entry_rng = 0

NextConc ==
    \/ \E i \in DOMAIN workers : WorkerSeed(i)
    \/ \E i \in DOMAIN workers : WorkerDraw(i)

SpecConc == InitConc /\ [][NextConc]_vars

\* C7 as claimed: under every interleaving of the workers' steps, each
\* worker that has finished holds the forecast the sequential run gives its
\* row.
C7_ConcurrentForecastsEqualSequential ==
    \A i \in DOMAIN workers :
        workers[i].pc = "done" =>
            workers[i].forecast =
                forecast_row(args.refineries_df[i], MODEL, hash_salt, rng).forecast

(***************************************************************************)
(* Claims about predict_sec_reduction (checked under SpecPredict).         *)
(***************************************************************************)

PredictReturned == op = "predict_sec_reduction" /\ pc = "idle"

\* An earlier call of predict_sec_reduction is remembered.
PredictRemembered ==
    PredictReturned /\ saved.kind = "call" /\ saved.op = "predict_sec_reduction"

\* C13: predict_sec_reduction is a step function of pat_cycle_entry with one
\* breakpoint at 2: at equal capacity two entries <= 2 give the same value,
\* two entries >= 3 give the same value, an entry <= 2 gives strictly more
\* than an entry >= 3; without the size adjustment the values are
\* |early_entrant_effect| * 100 and |late_entrant_effect| * 100.
C13_TwoTierStepAtTwo ==
    /\ (PredictReturned /\ args.capacity_mmtpa <= 1000) =>
          ret.value = IF args.pat_cycle_entry <= 2
                      THEN Abs(DiffInDiffCoefficients.early_entrant_effect)
                      ELSE Abs(DiffInDiffCoefficients.late_entrant_effect)
    /\ (PredictRemembered /\ saved.args.capacity_mmtpa = args.capacity_mmtpa) =>
          /\ (saved.args.pat_cycle_entry <= 2 /\ args.pat_cycle_entry <= 2) =>
                saved.ret.value = ret.value
          /\ (saved.args.pat_cycle_entry >= 3 /\ args.pat_cycle_entry >= 3) =>
                saved.ret.value = ret.value
          /\ (saved.args.pat_cycle_entry <= 2 /\ args.pat_cycle_entry >= 3) =>
                saved.ret.value > ret.value

\* C13 witness: entries 1 and 2 at one capacity gave the same value.
C13_WitnessBothSidesOfBreakpoint ==
    /\ PredictRemembered
    /\ saved.args.capacity_mmtpa = args.capacity_mmtpa
    /\ saved.args.pat_cycle_entry = 1
    /\ args.pat_cycle_entry = 2
    /\ saved.ret.value = ret.value
    /\ ret.value > predict_sec_reduction(3, args.capacity_mmtpa, MODEL)

\* C14: the size adjustment applies only to a capacity strictly above 10:
\* a capacity of exactly 10 gets the base effect, and for one cohort entry
\* a capacity above 10 gets large_refinery_adj * 100 less, so strictly less,
\* than a capacity at or below 10.
C14_SizeAdjustmentStrictlyAboveTen ==
    /\ (PredictReturned /\ args.capacity_mmtpa = 1000) =>
          ret.value = IF args.pat_cycle_entry <= 2
                      THEN Abs(DiffInDiffCoefficients.early_entrant_effect)
                      ELSE Abs(DiffInDiffCoefficients.late_entrant_effect)
    /\ (/\ PredictRemembered
        /\ saved.args.pat_cycle_entry = args.pat_cycle_entry
        /\ saved.args.capacity_mmtpa <= 1000
        /\ args.capacity_mmtpa > 1000) =>
          /\ ret.value < saved.ret.value
          /\ ret.value =
                saved.ret.value - DiffInDiffCoefficients.large_refinery_adj

\* C14 witness: one cohort at exactly 10 and then just above 10 MMTPA.
C14_WitnessAtTenAndJustAbove ==
    /\ PredictRemembered
    /\ saved.args.pat_cycle_entry = args.pat_cycle_entry
    /\ saved.args.capacity_mmtpa = 1000
    /\ args.capacity_mmtpa = 1001
    /\ ret.value < saved.ret.value
(***************************************************************************)
(* Claims about one call of monte_carlo_compliance (checked under SpecSim).*)
(***************************************************************************)

\* C15: the compliance probability returned is 100 * (the number of
\* returned samples strictly below target_sec) / n_simulations; it lies in
\* [0, 100], and a sample equal to target_sec is not counted.
C15_ProbabilityCountsStrictlyBelow ==
    MonteCarloReturned =>
        LET n == args.n_simulations
            strictly_below == {i \in DOMAIN ret.simulated_secs :
                                 ret.simulated_secs[i] < args.target_sec * 1000}
        IN  /\ ret.compliance_prob.den = n
            /\ ret.compliance_prob.num = 100 * Cardinality(strictly_below)
            /\ 0 <= ret.compliance_prob.num
            /\ ret.compliance_prob.num <= 100 * n

\* C15 witness: a call one of whose samples equals target_sec and another
\* lies below it; the first is not counted.
C15_WitnessSampleAtTarget ==
    /\ MonteCarloReturned
    /\ \E i \in DOMAIN ret.simulated_secs :
          ret.simulated_secs[i] = args.target_sec * 1000
    /\ ret.compliance_prob.num > 0
    /\ ret.compliance_prob.num < 100 * ret.compliance_prob.den

\* C16: for n_simulations >= 1 the returned sample has exactly
\* n_simulations entries, ci_lower and ci_upper lie within the sample's
\* range with ci_lower <= ci_upper, and for n_simulations = 1 both equal the
\* one sample.
C16_SampleSizeAndOrderedBounds ==
    MonteCarloReturned =>
        LET n == args.n_simulations
            secs == ret.simulated_secs
        IN  /\ Len(secs) = n
            /\ ret.ci_lower.den = ret.ci_upper.den
            /\ ret.ci_lower.num <= ret.ci_upper.num
            /\ \E i \in 1..n : secs[i] * ret.ci_lower.den <= ret.ci_lower.num
            /\ \E i \in 1..n : secs[i] * ret.ci_upper.den >= ret.ci_upper.num
            /\ n = 1 => /\ ret.ci_lower.num = secs[1] * ret.ci_lower.den
                        /\ ret.ci_upper.num = secs[1] * ret.ci_upper.den

\* C16 witness: a call with n_simulations = 1, both bounds the one sample.
C16_WitnessSingleDraw ==
    /\ MonteCarloReturned
    /\ args.n_simulations = 1
    /\ Len(ret.simulated_secs) = 1
    /\ ret.ci_lower = ret.ci_upper
    /\ ret.ci_lower.num = ret.simulated_secs[1] * ret.ci_lower.den

(***************************************************************************)
(* Claims about a row's forecast record (checked under SpecRecord).        *)
(***************************************************************************)

RecordBuilt == op = "forecast_record"

\* C17: the status of a record is 'High' when the simulated compliance
\* probability p is >= 70, 'Medium' when 40 <= p < 70, 'At Risk' when
\* p < 40; exactly one of the three applies, 70 and 40 belong to the upper
\* band.
C17_StatusBandsOfSimulatedProbability ==
    RecordBuilt =>
        LET p == args.mc.compliance_prob
            status == ret.record.status
        IN  /\ status \in {"High", "Medium", "At Risk"}
            /\ status = "High" <=> p.num >= 70 * p.den
            /\ status = "Medium" <=> (p.num >= 40 * p.den /\ p.num < 70 * p.den)
            /\ status = "At Risk" <=> p.num < 40 * p.den

\* C17 witness: a probability of exactly 70 classified 'High'.
C17_WitnessExactlySeventy ==
    /\ RecordBuilt
    /\ args.mc.compliance_prob.num = 70 * args.mc.compliance_prob.den
    /\ ret.record.status = "High"

\* C20 as claimed: in a record the status agrees with the reported
\* compliance_probability (rounded to one decimal, here in 1/10 %):
\* 'High' exactly when it is >= 70, 'Medium' exactly when >= 40 and < 70,
\* 'At Risk' exactly when < 40.
C20_StatusAgreesWithReportedProbability ==
    RecordBuilt =>
        LET reported == ret.record.compliance_probability
            status == ret.record.status
        IN  /\ status = "High" <=> reported >= 700
            /\ status = "Medium" <=> (reported >= 400 /\ reported < 700)
            /\ status = "At Risk" <=> reported < 400

(***************************************************************************)
(* Claims about state shared between calls (SpecSim, SpecLib).             *)
(***************************************************************************)

\* C18 as claimed: a seeded call of monte_carlo_compliance changes nothing
\* a later call can observe: the unseeded call made next, whatever its
\* arguments, returns what it would have returned had the seeded call not
\* been made.
C18_SeededCallInvisibleToNextUnseededCall ==
    (MonteCarloReturned /\ args.seed # Nothing) =>
        \A pred \in PredictedReductionValues, n \in 1..MaxSims :
            monte_carlo_compliance(100, 90, pred, n, DefaultStdErrorPct,
                                   Nothing, rng).ret
              = monte_carlo_compliance(100, 90, pred, n, DefaultStdErrorPct,
                                       Nothing, entry_rng).ret

\* C19: whatever calls of predict_sec_reduction, monte_carlo_compliance
\* and batch_compliance_forecast have been made, every field of MODEL has
\* the value it was constructed with.
C19_ModelCoefficientsNeverWritten ==
    MODEL = DiffInDiffCoefficients

\* C19 witness: a batch forecast of two rows has returned, each row having
\* used MODEL through predict_sec_reduction, and MODEL is as constructed.
C19_WitnessAfterBatchOfTwo ==
    /\ BatchReturned
    /\ Len(ret.items) = 2
    /\ ret.items[1].predicted_reduction_pct
          = Abs(MODEL.early_entrant_effect) - MODEL.large_refinery_adj
    /\ MODEL.large_refinery_adj = 85

(***************************************************************************)
(* Claims about the values reported together in one result.                *)
(***************************************************************************)

\* C21 as claimed: in every SECResult returned by calculate_sec,
\* is_compliant is true exactly when the returned current_sec (rounded to
\* three decimals) is strictly less than the returned target_sec (rounded
\* to three decimals).
C21_CompliantAgreesWithReportedSecs ==
    (op = "calculate_sec" /\ ret.kind = "SECResult") =>
        (ret.is_compliant <=> ret.current_sec < ret.target_sec)

(***************************************************************************)
(* Claims about the accumulation loop (checked under SpecPortfolio).       *)
(***************************************************************************)

\* The sum of the signed escerts_toe of a list of positions.
RECURSIVE SumToe(_)
SumToe(positions) ==
    IF positions = <<>> THEN 0
    ELSE Head(positions).escerts_toe + SumToe(Tail(positions))

\* The generators' part and the others' part of that sum, by the sign of
\* each row's overachievement (calculator.py:96, 124).
RECURSIVE SumGenerated(_, _)
SumGenerated(rows, positions) ==
    IF positions = <<>> THEN 0
    ELSE (IF Head(rows).target_sec[1] > Head(rows).current_sec[1]
          THEN Head(positions).escerts_toe ELSE 0)
           + SumGenerated(Tail(rows), Tail(positions))

\* C22 as claimed: after each iteration of the loop, and in the returned
\* dict, total_generated - total_required is the sum of the signed
\* escerts_toe of the positions so far, both totals are non-negative, there
\* is one position per facility processed, and each facility has added to
\* one total only: the generators' certificates make up total_generated.
C22_LoopKeepsSignedSumAndNonNegativeTotals ==
    /\ (op = "calculate_portfolio_escerts" /\ pc = "loop") =>
          /\ total_generated - total_required = SumToe(refinery_positions)
          /\ total_generated >= 0
          /\ total_required >= 0
          /\ Len(refinery_positions) = idx - 1
          /\ total_generated =
                SumGenerated(args.refineries_df, refinery_positions)
    /\ PortfolioReturned =>
          /\ ret.total_generated_toe - ret.total_required_toe
                = SumToe(ret.positions)
          /\ ret.total_generated_toe >= 0
          /\ ret.total_required_toe >= 0
          /\ Len(ret.positions) = Len(args.refineries_df)

(***************************************************************************)
(* Claims about a facility's forecast within a batch (SpecBatch).          *)
(***************************************************************************)

\* C23: within one process, the list batch_compliance_forecast returns has
\* one record per facility in input order, and each facility's record is
\* the one its own row gives in this process, whatever state the rows
\* before it (or anything else) left the generator in.
C23_ForecastDependsOnOwnRowOnly ==
    BatchReturned =>
        /\ Len(ret.items) = Len(args.refineries_df)
        /\ \A i \in DOMAIN ret.items :
              /\ ret.items[i].refinery = args.refineries_df[i].refinery
              /\ \A s \in RngStateSet :
                    ret.items[i] =
                      forecast_row(args.refineries_df[i], DiffInDiffCoefficients,
                                   hash_salt, s).forecast

\* C23 witness: a batch of two different facilities, the first of which
\* left the generator in a state the second one's seed does not give.
C23_WitnessSecondRowAfterDifferentFirst ==
    /\ BatchReturned
    /\ Len(ret.items) = 2
    /\ args.refineries_df[1] # args.refineries_df[2]
    /\ forecast_row(args.refineries_df[1], MODEL, hash_salt, entry_rng).rng
          # seed_state(row_seed(args.refineries_df[2], hash_salt))
    /\ ret.items[2] =
          forecast_row(args.refineries_df[2], MODEL, hash_salt, 0).forecast
    /\ ret.items[2].refinery = args.refineries_df[2].refinery

=============================================================================
